---- MODULE Spec2Model ----
(***************************************************************************)
(* Founder Execution Engine: the daily judgement engine (engine.py and the *)
(* legacy rules.py), the action generator (ai.py), and the two callers     *)
(* that drive them over the users / actions / daily_results tables: the    *)
(* Streamlit app (streamlit_app.py over engine.py) and the legacy FastAPI  *)
(* backend (main.py).                                                      *)
(*                                                                         *)
(* Numbers.  impact_weight is a float in the code; here it is an integer   *)
(* count of twentieths (1.4 is 28, 0.75 is 15), so 10 * impacts_sum is     *)
(* impacts / 2 and round() has real ties to break.  Texts are records      *)
(* [body, pad, len]: pad counts the surrounding whitespace that strip()    *)
(* removes, len the characters, so [:300] is a cut of len.  Goal texts are *)
(* sequences of one-character strings.                                     *)
(***************************************************************************)
EXTENDS Integers, Sequences, FiniteSets, TLC

VARIABLES
    app,            \* which deployment runs: "streamlit" or "legacy"
    clock,          \* date.today(), as a day number
    users,          \* table users: id -> row
    actions,        \* table actions in rowid order; a row's id is its rowid
    daily_results,  \* table daily_results in rowid order
    sess,           \* per browser session / per request: session_state and locals
    checkins,       \* check-ins started so far
    jd,             \* one judge_day call: its arguments and its result
    ga              \* one generate_actions call: its arguments and its result

vars == <<app, clock, users, actions, daily_results, sess, checkins, jd, ga>>

(***************************************************************************)
(* Bounds of the model.                                                    *)
(***************************************************************************)
MaxDay == 2
MaxCheckins == 2
MaxLongCheckins == 5

Users == {"founder"}
Sessions == {"s1", "s2"}
Days == 1..MaxDay

Min(a, b) == IF a < b THEN a ELSE b
Max(a, b) == IF a > b THEN a ELSE b

(***************************************************************************)
(* engine.py / rules.py: the scoring engine.                               *)
(***************************************************************************)
LevelStep == 250
MaxLevel == 10
MaxDifficulty == 5
XpPerAction == 20
XpPerDifficulty == 5
PenaltyPerMiss == 15
StreakBonus == 5
BonusStreak == 3
EscalateStreak == 5
EscalateCompleted == 4

\* clamp without its upper bound
clamp_unbounded(v, lo, hi) == Max(lo, v)

clamp(v, lo, hi) == Max(lo, Min(hi, v))

\* the level counted from 0
level_from_xp_from_zero(xp) == clamp(xp \div LevelStep, 1, MaxLevel)

level_from_xp(xp) == clamp(1 + (xp \div LevelStep), 1, MaxLevel)

\* Python's round() on a value with halves: n2 is twice the value.
RoundHalfEven(n2) ==
    LET q == n2 \div 2 IN
    IF n2 % 2 = 0 THEN q
    ELSE IF q % 2 = 0 THEN q ELSE q + 1

VerdictNothing == "You executed nothing. That's self-deception. Penalty applied."
VerdictHard == "You executed hard. Keep going. Next level demands more."
VerdictWork == "You did the work. No excuses. No detours."
VerdictAvoided == "You avoided the main goal. You pay now and later. Fix it."
VerdictBailed == "You did something - then you bailed on the rest. Not enough."

\* the base without the difficulty term
base_xp_of_no_difficulty(current_difficulty, completed, impacts) ==
    RoundHalfEven(2 * XpPerAction * completed + impacts)

\* line 88; impacts is impacts_sum in twentieths
base_xp_of(current_difficulty, completed, impacts) ==
    RoundHalfEven(2 * XpPerAction * completed + impacts
                  + 2 * XpPerDifficulty * current_difficulty)

\* the streak kept on a day with nothing completed
new_streak_of_lenient(current_streak, completed, missed) ==
    IF missed = 0 THEN current_streak + 1 ELSE 0

\* lines 91-94
new_streak_of(current_streak, completed, missed) ==
    IF missed = 0 /\ completed > 0 THEN current_streak + 1 ELSE 0

\* the delta applied without the floor
new_xp_of_unfloored(current_xp, xp_delta) == current_xp + xp_delta

\* line 99
new_xp_of(current_xp, xp_delta) == Max(0, current_xp + xp_delta)

\* line 101
new_debt_of(current_debt, missed) == current_debt + missed

\* every condition that holds adds its own step
new_difficulty_of_additive(current_difficulty, new_streak, completed, missed) ==
    clamp(current_difficulty
            + (IF missed >= 2 THEN 1 ELSE 0)
            + (IF new_streak >= EscalateStreak THEN 1 ELSE 0)
            + (IF missed = 0 /\ completed >= EscalateCompleted THEN 1 ELSE 0),
          1, MaxDifficulty)

\* lines 103-111
new_difficulty_of(current_difficulty, new_streak, completed, missed) ==
    LET diff == IF missed >= 2 THEN current_difficulty + 1
                ELSE IF new_streak >= EscalateStreak THEN current_difficulty + 1
                ELSE IF missed = 0 /\ completed >= EscalateCompleted
                     THEN current_difficulty + 1
                ELSE current_difficulty
    IN  clamp(diff, 1, MaxDifficulty)

\* the first branch without its missed > 0
verdict_of_nothing_first(completed, missed) ==
    IF completed = 0 THEN VerdictNothing
    ELSE IF missed = 0 /\ completed >= EscalateCompleted THEN VerdictHard
    ELSE IF missed = 0 /\ completed > 0 THEN VerdictWork
    ELSE IF missed >= 2 THEN VerdictAvoided
    ELSE VerdictBailed

\* lines 114-123
verdict_of(completed, missed) ==
    IF completed = 0 /\ missed > 0 THEN VerdictNothing
    ELSE IF missed = 0 /\ completed >= EscalateCompleted THEN VerdictHard
    ELSE IF missed = 0 /\ completed > 0 THEN VerdictWork
    ELSE IF missed >= 2 THEN VerdictAvoided
    ELSE VerdictBailed

judge_day(current_xp, current_streak, current_debt, current_difficulty, completed, missed, impacts) ==
    LET base_xp == base_xp_of(current_difficulty, completed, impacts)
        penalty == PenaltyPerMiss * missed
        new_streak == new_streak_of(current_streak, completed, missed)
        streak_bonus == IF new_streak >= BonusStreak THEN StreakBonus ELSE 0
        xp_delta == base_xp + streak_bonus - penalty
        new_xp == new_xp_of(current_xp, xp_delta)
    IN  [xp_delta |-> xp_delta,
         penalty |-> penalty,
         new_xp |-> new_xp,
         new_level |-> level_from_xp(new_xp),
         new_streak |-> new_streak,
         new_debt |-> new_debt_of(current_debt, missed),
         new_difficulty |-> new_difficulty_of(current_difficulty, new_streak,
                                              completed, missed),
         verdict |-> verdict_of(completed, missed)]

(***************************************************************************)
(* rules.py: the legacy backend's own copy of the scoring engine.          *)
(***************************************************************************)
rules_clamp(v, lo, hi) == Max(lo, Min(hi, v))

rules_level_from_xp(xp) == rules_clamp(1 + (xp \div LevelStep), 1, MaxLevel)

rules_judge_day(current_xp, current_streak, current_debt, current_difficulty, completed, missed, impacts) ==
    LET base_xp == RoundHalfEven(2 * XpPerAction * completed + impacts
                                 + 2 * XpPerDifficulty * current_difficulty)
        penalty == PenaltyPerMiss * missed
        new_streak == IF missed = 0 /\ completed > 0
                      THEN current_streak + 1 ELSE 0
        streak_bonus == IF new_streak >= BonusStreak THEN StreakBonus ELSE 0
        xp_delta == base_xp + streak_bonus - penalty
        new_xp == Max(0, current_xp + xp_delta)
        new_debt == current_debt + missed
        diff == IF missed >= 2 THEN current_difficulty + 1
                ELSE IF new_streak >= EscalateStreak THEN current_difficulty + 1
                ELSE IF missed = 0 /\ completed >= EscalateCompleted
                     THEN current_difficulty + 1
                ELSE current_difficulty
        verdict == IF completed = 0 /\ missed > 0 THEN VerdictNothing
                   ELSE IF missed = 0 /\ completed >= EscalateCompleted THEN VerdictHard
                   ELSE IF missed = 0 /\ completed > 0 THEN VerdictWork
                   ELSE IF missed >= 2 THEN VerdictAvoided
                   ELSE VerdictBailed
    IN  [xp_delta |-> xp_delta,
         penalty |-> penalty,
         new_xp |-> new_xp,
         new_level |-> rules_level_from_xp(new_xp),
         new_streak |-> new_streak,
         new_debt |-> new_debt,
         new_difficulty |-> rules_clamp(diff, 1, MaxDifficulty),
         verdict |-> verdict]

(***************************************************************************)
(* Strings: goal texts as sequences of characters, action texts as         *)
(* [body, pad, len].                                                       *)
(***************************************************************************)
IsSpace(c) == c \in {" ", "\t", "\n"}

\* str.strip()
Strip(s) ==
    LET keep == {i \in 1..Len(s) : ~IsSpace(s[i])} IN
    IF keep = {} THEN <<>>
    ELSE SubSeq(s, CHOOSE i \in keep : \A k \in keep : i <= k,
                   CHOOSE i \in keep : \A k \in keep : i >= k)

LowerChar(c) ==
    CASE c = "A" -> "a" [] c = "B" -> "b" [] c = "C" -> "c" [] c = "D" -> "d"
      [] c = "E" -> "e" [] c = "F" -> "f" [] c = "G" -> "g" [] c = "H" -> "h"
      [] c = "I" -> "i" [] c = "J" -> "j" [] c = "K" -> "k" [] c = "L" -> "l"
      [] c = "M" -> "m" [] c = "N" -> "n" [] c = "O" -> "o" [] c = "P" -> "p"
      [] c = "Q" -> "q" [] c = "R" -> "r" [] c = "S" -> "s" [] c = "T" -> "t"
      [] c = "U" -> "u" [] c = "V" -> "v" [] c = "W" -> "w" [] c = "X" -> "x"
      [] c = "Y" -> "y" [] c = "Z" -> "z" [] OTHER -> c

\* the goal used as typed: lower() forgotten
Lower_as_typed(s) == s

\* str.lower()
Lower(s) == [i \in 1..Len(s) |-> LowerChar(s[i])]

\* k in s
Contains(k, s) ==
    \E i \in 1..(Len(s) - Len(k) + 1) : SubSeq(s, i, i + Len(k) - 1) = k

MaxTextLen == 300

Text(body, n) == [body |-> body, pad |-> 0, len |-> n]

\* str(t).strip()[:300]
StripCut(t) == [body |-> t.body, pad |-> 0, len |-> Min(t.len - t.pad, MaxTextLen)]

(***************************************************************************)
(* ai.py: the heuristic generator and the generation adapter.              *)
(***************************************************************************)
RevenueKeywords ==
    { <<"m", "r", "r">>, <<"s", "a", "l", "e", "s">>,
      <<"c", "u", "s", "t", "o", "m", "e", "r", "s">>,
      <<"c", "u", "s", "t", "o", "m", "e", "r">>,
      <<"r", "e", "v", "e", "n", "u", "e">>, <<"s", "e", "l", "l">>,
      <<"p", "i", "p", "e", "l", "i", "n", "e">> }

BuildKeywords ==
    { <<"p", "r", "o", "d", "u", "c", "t">>, <<"m", "v", "p">>, <<"a", "p", "p">>,
      <<"b", "u", "i", "l", "d">>, <<"l", "a", "u", "n", "c", "h">>,
      <<"s", "h", "i", "p">> }

MaxActions == 5
MinActions == 3
ActionDifficultyCap == 3

\* add with every difficulty capped
Add_capped(text, w, d) ==
    [text |-> text, impact_weight |-> w, difficulty |-> Min(ActionDifficultyCap, d),
     non_negotiable |-> TRUE]

\* add(text, w, d): w in twentieths
Add(text, w, d) ==
    [text |-> text, impact_weight |-> w, difficulty |-> d, non_negotiable |-> TRUE]

Head5(s) == SubSeq(s, 1, Min(MaxActions, Len(s)))

_offline_actions(goal_text, difficulty) ==
    LET lower == Lower(Strip(goal_text))
        up == Min(ActionDifficultyCap, difficulty + 1)
        listed ==
            IF \E k \in RevenueKeywords : Contains(k, lower) THEN
                << Add(Text("Contact 10 prospects (DM/email) with ONE offer. Log replies.", 60), 28, up),
                   Add(Text("Improve the offer (headline + price + guarantee). Publish it.", 61), 24, difficulty),
                   Add(Text("Book 1 short sales call (15 min). No research-avoidance.", 56), 30, up),
                   Add(Text("Ask for money: send 1 invoice/checkout link or request a deposit.", 65), 30, 3) >>
            ELSE IF \E k \in BuildKeywords : Contains(k, lower) THEN
                << Add(Text("Set a deadline: ship 1 concrete feature today. No side quests.", 62), 26, difficulty),
                   Add(Text("Cut 1 feature you 'want' but don't need. Commit the change.", 59), 24, difficulty),
                   Add(Text("Post a public update (X/LinkedIn) showing what you shipped.", 59), 22, difficulty),
                   Add(Text("Get 3 people to test and give feedback. Collect responses.", 58), 28, up) >>
            ELSE
                << Add(Text("Write today's 3 deliverables in 1 sentence each. No fluff.", 58), 20, difficulty),
                   Add(Text("Do the most uncomfortable task first. 45-minute timer. No distractions.", 71), 28, up),
                   Add(Text("Remove 1 blocker by contacting a human (not Googling).", 54), 26, up),
                   Add(Text("Ship something visible: post/commit/demo. Proof > intention.", 60), 24, difficulty) >>
        cut == Head5(listed)
    IN  IF Len(cut) < MinActions
        THEN Append(cut, Add(Text("Ship a result you can show publicly.", 36), 24, difficulty))
        ELSE cut

(***************************************************************************)
(* What the outside world hands one generate_actions call: the API key,    *)
(* the HTTP exchange and the response.  An item of the returned array is   *)
(* a JSON object (dict TRUE) whose fields may be absent ("none"), usable   *)
(* ("ok") or not convertible ("bad": float() or int() raises).             *)
(***************************************************************************)
HttpErrorFrom == 400
DefaultWeight == 20
DefaultDifficulty == 2

EmptyText == [body |-> "", pad |-> 0, len |-> 0]

Item(text, w, d) ==
    [dict |-> TRUE, text_in |-> "ok", text |-> text,
     w_in |-> "ok", w |-> w, d_in |-> "ok", d |-> d]

Raised == [raised |-> TRUE, value |-> <<>>]
Returned(v) == [raised |-> FALSE, value |-> v]

\* a.get(...) of a non-dict, float() or int() of a non-number raise
CleanRaises(a) == ~a.dict \/ a.w_in = "bad" \/ a.d_in = "bad"

Clean(a) ==
    [text |-> IF a.text_in = "ok" THEN StripCut(a.text) ELSE EmptyText,
     impact_weight |-> IF a.w_in = "ok" THEN a.w ELSE DefaultWeight,
     difficulty |-> IF a.d_in = "ok" THEN a.d ELSE DefaultDifficulty,
     non_negotiable |-> TRUE]

\* the body of the try block of generate_actions
TryBody(env, goal_text, difficulty) ==
    IF env.net # "ok" THEN Raised
    ELSE IF env.status >= HttpErrorFrom THEN Raised
    ELSE IF ~env.json_ok THEN Raised
    ELSE IF env.txt = "noarray" THEN Returned(_offline_actions(goal_text, difficulty))
    ELSE IF env.txt = "badarray" THEN Raised
    ELSE IF \E i \in 1..Len(env.arr) : CleanRaises(env.arr[i]) THEN Raised
    ELSE LET cleaned == Head5([i \in 1..Len(env.arr) |-> Clean(env.arr[i])]) IN
         IF Len(cleaned) < MinActions
         THEN Returned(_offline_actions(goal_text, difficulty))
         ELSE Returned(cleaned)

\* the try block without its except clause
generate_actions_uncaught(env, goal_text, difficulty) ==
    IF ~env.api_key THEN Returned(_offline_actions(goal_text, difficulty))
    ELSE TryBody(env, goal_text, difficulty)

generate_actions(env, goal_text, difficulty) ==
    IF ~env.api_key THEN Returned(_offline_actions(goal_text, difficulty))
    ELSE LET r == TryBody(env, goal_text, difficulty) IN
         IF r.raised THEN Returned(_offline_actions(goal_text, difficulty))
         ELSE r

(***************************************************************************)
(* The tables (engine.py SCHEMA, backend/db.py SCHEMA) and the queries.    *)
(* NULL in actions.completed is Null.  created_at and completed_at hold    *)
(* wall-clock stamps no rule reads; they are left out.                     *)
(***************************************************************************)
Null == 0 - 1

Range(f) == {f[i] : i \in DOMAIN f}

RECURSIVE SumOver(_, _)
SumOver(s, f) == IF s = <<>> THEN 0 ELSE f[Head(s)] + SumOver(Tail(s), f)

\* a set of rowids in rowid order
RECURSIVE Ascending(_)
Ascending(S) ==
    IF S = {} THEN <<>>
    ELSE LET m == CHOOSE i \in S : \A k \in S : i <= k
         IN  <<m>> \o Ascending(S \ {m})

\* INSERT INTO users: the column defaults of the schema
NewUserRow(goal_text) ==
    [goal_text |-> goal_text, level |-> 1, xp |-> 0, streak |-> 0, debt |-> 0,
     difficulty |-> 1]

get_user(user_id) == users[user_id]

\* SELECT * FROM actions WHERE user_id=? AND date=? ORDER BY rowid (the rowids)
RowsOf(tbl, user_id, day) ==
    Ascending({i \in 1..Len(tbl) : tbl[i].user_id = user_id /\ tbl[i].date = day})

list_actions(user_id, day) == RowsOf(actions, user_id, day)

\* INSERT OR IGNORE INTO users ...; UPDATE users SET goal_text=? WHERE id=?
upsert_user(tbl, user_id, goal_text) ==
    LET stripped == Strip(goal_text)
        inserted == IF user_id \in DOMAIN tbl THEN tbl
                    ELSE [u \in DOMAIN tbl \cup {user_id} |->
                            IF u = user_id THEN NewUserRow(stripped) ELSE tbl[u]]
    IN  [inserted EXCEPT ![user_id].goal_text = stripped]

ActionRow(user_id, day, text, w, d) ==
    [user_id |-> user_id, date |-> day, text |-> text, impact_weight |-> w,
     difficulty |-> d, non_negotiable |-> 1, completed |-> Null]

\* engine.insert_actions: the first five, texts stripped and cut
insert_actions(tbl, user_id, day, acts) ==
    LET first == Head5(acts) IN
    tbl \o [i \in 1..Len(first) |->
              ActionRow(user_id, day, StripCut(first[i].text),
                        first[i].impact_weight, first[i].difficulty)]

\* main.generate_today: every action of the list, texts as they are
InsertAll(tbl, user_id, day, acts) ==
    tbl \o [i \in 1..Len(acts) |->
              ActionRow(user_id, day, acts[i].text,
                        acts[i].impact_weight, acts[i].difficulty)]

\* UPDATE actions SET completed=? WHERE id=?  for each (id, completed) of updates:
\* done holds the ids set to 1, missedIds the ids set to 0
SetCompletions(tbl, done, missedIds) ==
    [i \in 1..Len(tbl) |->
        IF i \in done THEN [tbl[i] EXCEPT !.completed = 1]
        ELSE IF i \in missedIds THEN [tbl[i] EXCEPT !.completed = 0]
        ELSE tbl[i]]

\* the three sums of a check-in over actions2
Counts(tbl, ids) ==
    LET one == [i \in Range(ids) |-> IF tbl[i].completed = 1 THEN 1 ELSE 0]
        zero == [i \in Range(ids) |-> IF tbl[i].completed = 0 THEN 1 ELSE 0]
        weight == [i \in Range(ids) |->
                     IF tbl[i].completed = 1 THEN tbl[i].impact_weight ELSE 0]
    IN  [completed |-> SumOver(ids, one), missed |-> SumOver(ids, zero),
         impacts |-> SumOver(ids, weight)]

\* SELECT id FROM daily_results WHERE user_id=? AND date=?  .fetchone(); 0 for None
SelectResult(user_id, day) ==
    LET found == {i \in 1..Len(daily_results) :
                    daily_results[i].user_id = user_id /\ daily_results[i].date = day}
    IN  IF found = {} THEN 0 ELSE Head(Ascending(found))

ResultRow(user_id, day, j) ==
    [user_id |-> user_id, date |-> day, xp_delta |-> j.xp_delta,
     penalty |-> j.penalty, verdict_text |-> j.verdict]

\* the write of upsert_daily_result, existing being what its SELECT found
WriteResult(tbl, existing, user_id, day, j) ==
    IF existing # 0
    THEN [tbl EXCEPT ![existing].xp_delta = j.xp_delta,
                     ![existing].penalty = j.penalty,
                     ![existing].verdict_text = j.verdict]
    ELSE Append(tbl, ResultRow(user_id, day, j))

\* UPDATE users SET xp=?, level=?, streak=?, debt=?, difficulty=? WHERE id=?
update_user_stats(tbl, user_id, j) ==
    IF user_id \notin DOMAIN tbl THEN tbl
    ELSE [tbl EXCEPT ![user_id].xp = j.new_xp,
                     ![user_id].level = j.new_level,
                     ![user_id].streak = j.new_streak,
                     ![user_id].debt = j.new_debt,
                     ![user_id].difficulty = j.new_difficulty]

(***************************************************************************)
(* Inputs of the callers.                                                  *)
(***************************************************************************)
GoalSell == <<"S", "e", "l", "l", " ", "t", "h", "e", " ", "a", "p", "p">>
GoalFit == <<" ", "G", "e", "t", " ", "f", "i", "t">>
GoalBlank == <<" ", " ", " ", " ", " ">>
GoalInputs == {GoalSell, GoalFit, GoalBlank}

GoalMinLen == 5
GoalMaxLen == 280

NoKey ==
    [api_key |-> FALSE, net |-> "ok", status |-> 200, json_ok |-> TRUE,
     txt |-> "array", arr |-> <<>>]

Response(arr) == [NoKey EXCEPT !.api_key = TRUE, !.arr = arr]

\* six well-formed items with an impact_weight of 50.0 each
RespHeavy ==
    Response([i \in 1..6 |-> Item(Text("Close a deal", 12), 1000, 2)])

\* three items: a padded text, an over-long text, weights 0.75, -2.0 and 1.25
RespOdd ==
    Response(<< Item([body |-> "Call a customer", pad |-> 2, len |-> 17], 15, 1),
                Item(Text("Publish the long plan", 400), 0 - 40, 7),
                Item(Text("Ask for money", 13), 25, 3) >>)

MainEnvs == {NoKey, RespHeavy, RespOdd}

(***************************************************************************)
(* A browser session of the Streamlit app, or a request of the legacy      *)
(* backend: session_state (user_id, today, today_actions as cache) and the *)
(* locals of the handler that is running (pc says where it stands).        *)
(***************************************************************************)
NoRow == [goal_text |-> <<>>, level |-> 0, xp |-> 0, streak |-> 0, debt |-> 0,
          difficulty |-> 0]
NoCounts == [completed |-> 0, missed |-> 0, impacts |-> 0]
NoJudgement ==
    [xp_delta |-> 0, penalty |-> 0, new_xp |-> 0, new_level |-> 0, new_streak |-> 0,
     new_debt |-> 0, new_difficulty |-> 0, verdict |-> ""]

FreshSession(day) ==
    [user_id |-> "founder", today |-> day, cache |-> <<>>, pc |-> "idle",
     u |-> NoRow, counts |-> NoCounts, j |-> NoJudgement, existing |-> 0,
     done |-> {}, missedIds |-> {}]

\* a handler returns: its locals die
Returning(ss) ==
    [ss EXCEPT !.pc = "idle", !.u = NoRow, !.counts = NoCounts, !.j = NoJudgement,
               !.existing = 0, !.done = {}, !.missedIds = {}]

PureIdle == [called |-> FALSE]

Init ==
    /\ app \in {"streamlit", "legacy"}
    /\ clock = 1
    /\ users = << >>
    /\ actions = << >>
    /\ daily_results = << >>
    /\ sess = [s \in Sessions |-> FreshSession(1)]
    /\ checkins = 0
    /\ jd = PureIdle
    /\ ga = PureIdle

Pure == <<jd, ga>>

\* date.today() moves on.  A handler reads the date once, at its start (d, or
\* session_state.today), so midnight during a handler is midnight before it.
Tick ==
    /\ clock < MaxDay
    /\ \A s \in Sessions : sess[s].pc = "idle"
    /\ clock' = clock + 1
    /\ UNCHANGED <<app, users, actions, daily_results, sess, checkins, Pure>>

(***************************************************************************)
(* streamlit_app.py.  Every click reruns the script: the Init tab, then    *)
(* the head of the Today tab (lines 58-70), then the handler of the        *)
(* clicked button.  Each engine.py call is its own connection and          *)
(* transaction, so other sessions run between the calls of one handler.    *)
(***************************************************************************)
\* lines 59-70: today_actions is filled from the table only while it is empty
TodayHead(userTbl, cache, uid, day) ==
    IF uid \notin DOMAIN userTbl THEN cache
    ELSE LET existing == list_actions(uid, day) IN
         IF existing # <<>> /\ cache = <<>> THEN existing ELSE cache

\* a new browser session, opened on a later day than the one it replaces
StNewSession(s) ==
    /\ app = "streamlit"
    /\ sess[s].pc = "idle"
    /\ sess[s].today # clock
    /\ sess' = [sess EXCEPT ![s] =
                  [FreshSession(clock) EXCEPT
                      !.cache = TodayHead(users, <<>>, "founder", clock)]]
    /\ UNCHANGED <<app, clock, users, actions, daily_results, checkins, Pure>>

\* "Commit goal"
StCommitGoal(s, uid, goal) ==
    /\ app = "streamlit"
    /\ sess[s].pc = "idle"
    /\ LET blank == Strip(goal) = <<>>
           tbl == IF blank THEN users ELSE upsert_user(users, uid, Strip(goal))
           who == IF blank THEN sess[s].user_id ELSE uid
       IN  /\ users' = tbl
           /\ sess' = [sess EXCEPT ![s].user_id = who,
                                   ![s].cache = TodayHead(tbl, @, who, sess[s].today)]
    /\ UNCHANGED <<app, clock, actions, daily_results, checkins, Pure>>

\* "Generate today's actions", up to the call of generate_actions
StGenerate(s) ==
    /\ app = "streamlit"
    /\ sess[s].pc = "idle"
    /\ sess[s].user_id \in DOMAIN users
    /\ LET uid == sess[s].user_id
           existing2 == list_actions(uid, sess[s].today)
       IN  sess' = [sess EXCEPT ![s] =
                      IF existing2 # <<>>
                      THEN [@ EXCEPT !.cache = existing2]
                      ELSE [@ EXCEPT !.pc = "generating", !.u = get_user(uid)]]
    /\ UNCHANGED <<app, clock, users, actions, daily_results, checkins, Pure>>

\* generate_actions returns; insert_actions; list_actions
StGenerated(s, env) ==
    /\ app = "streamlit"
    /\ sess[s].pc = "generating"
    /\ LET uid == sess[s].user_id
           day == sess[s].today
           r == generate_actions(env, sess[s].u.goal_text, sess[s].u.difficulty)
           tbl == IF r.raised THEN actions
                  ELSE insert_actions(actions, uid, day, r.value)
           listed == RowsOf(tbl, uid, day)
       IN  /\ actions' = tbl
           /\ sess' = [sess EXCEPT ![s] =
                         IF r.raised THEN Returning(@)
                         ELSE [Returning(@) EXCEPT !.cache = listed]]
    /\ UNCHANGED <<app, clock, users, daily_results, checkins, Pure>>

\* "Submit check-in (judgement)" with the first k boxes ticked: the
\* set_action_completion loop, list_actions, get_user, judge_day
StSubmit(s, k) ==
    /\ app = "streamlit"
    /\ sess[s].pc = "idle"
    /\ sess[s].user_id \in DOMAIN users
    /\ sess[s].cache # <<>>
    /\ k \in 0..Len(sess[s].cache)
    /\ LET uid == sess[s].user_id
           cache == sess[s].cache
           done == {cache[i] : i \in 1..k}
           tbl == SetCompletions(actions, done, Range(cache) \ done)
           actions2 == RowsOf(tbl, uid, sess[s].today)
           c == Counts(tbl, actions2)
           u2 == get_user(uid)
       IN  /\ actions' = tbl
           /\ sess' = [sess EXCEPT ![s].pc = "upsert", ![s].u = u2, ![s].counts = c,
                          ![s].j = judge_day(u2.xp, u2.streak, u2.debt, u2.difficulty,
                                             c.completed, c.missed, c.impacts)]
    /\ checkins' = checkins + 1
    /\ UNCHANGED <<app, clock, users, daily_results, Pure>>

\* upsert_daily_result: the SELECT
StUpsertSelect(s) ==
    /\ app = "streamlit"
    /\ sess[s].pc = "upsert"
    /\ sess' = [sess EXCEPT ![s].pc = "upsert_write",
                            ![s].existing = SelectResult(sess[s].user_id, sess[s].today)]
    /\ UNCHANGED <<app, clock, users, actions, daily_results, checkins, Pure>>

\* upsert_daily_result: the UPDATE or the INSERT
StUpsertWrite(s) ==
    /\ app = "streamlit"
    /\ sess[s].pc = "upsert_write"
    /\ daily_results' = WriteResult(daily_results, sess[s].existing,
                                    sess[s].user_id, sess[s].today, sess[s].j)
    /\ sess' = [sess EXCEPT ![s].pc = "stats"]
    /\ UNCHANGED <<app, clock, users, actions, checkins, Pure>>

\* update_user_stats, and the handler ends
StUpdateStats(s) ==
    /\ app = "streamlit"
    /\ sess[s].pc = "stats"
    /\ users' = update_user_stats(users, sess[s].user_id, sess[s].j)
    /\ sess' = [sess EXCEPT ![s] = Returning(@)]
    /\ UNCHANGED <<app, clock, actions, daily_results, checkins, Pure>>

(***************************************************************************)
(* _legacy/backend/main.py.  A request runs on one connection (get_conn),  *)
(* whose SELECTs run outside any transaction until the first INSERT or     *)
(* UPDATE opens one (sqlite3's implicit BEGIN); from there to the commit   *)
(* at the end of the request the writes are one atomic step.  A slot of    *)
(* sess holds a request in progress: user_id is req.user_id, today is d.   *)
(***************************************************************************)
\* the explicit column values of create_user's INSERT
CreatedUserRow(goal_text) ==
    [goal_text |-> goal_text, level |-> 1, xp |-> 0, streak |-> 0, debt |-> 0,
     difficulty |-> 1]

\* POST /users
create_user(uid, goal) ==
    /\ app = "legacy"
    /\ Len(goal) >= GoalMinLen
    /\ Len(goal) <= GoalMaxLen
    /\ users' = IF uid \in DOMAIN users THEN users
                ELSE [u \in DOMAIN users \cup {uid} |->
                        IF u = uid THEN CreatedUserRow(Strip(goal)) ELSE users[u]]
    /\ UNCHANGED <<app, clock, actions, daily_results, sess, checkins, Pure>>

\* POST /generate_today, up to the call of generate_actions
generate_today(r, uid) ==
    /\ app = "legacy"
    /\ sess[r].pc = "idle"
    /\ uid \in DOMAIN users
    /\ sess' = [sess EXCEPT ![r] =
                  IF list_actions(uid, clock) # <<>> THEN @
                  ELSE [@ EXCEPT !.pc = "generating", !.user_id = uid,
                                 !.today = clock, !.u = users[uid]]]
    /\ UNCHANGED <<app, clock, users, actions, daily_results, checkins, Pure>>

\* generate_actions returns; the INSERT loop; commit
generate_today_insert(r, env) ==
    /\ app = "legacy"
    /\ sess[r].pc = "generating"
    /\ LET g == generate_actions(env, sess[r].u.goal_text, sess[r].u.difficulty) IN
       actions' = IF g.raised THEN actions
                  ELSE InsertAll(actions, sess[r].user_id, sess[r].today, g.value)
    /\ sess' = [sess EXCEPT ![r] = FreshSession(1)]
    /\ UNCHANGED <<app, clock, users, daily_results, checkins, Pure>>

\* POST /checkin: the two SELECTs at its head.  The request marks the first
\* k actions of the day completed and the others missed, or (send FALSE)
\* carries no update at all.
checkin(r, uid, k, send) ==
    /\ app = "legacy"
    /\ sess[r].pc = "idle"
    /\ uid \in DOMAIN users
    /\ LET ids == list_actions(uid, clock)
           done == IF send THEN {ids[i] : i \in 1..k} ELSE {}
       IN  /\ ids # <<>>
           /\ k \in 0..Len(ids)
           /\ sess' = [sess EXCEPT ![r] =
                         [@ EXCEPT !.pc = "apply", !.user_id = uid, !.today = clock,
                                   !.u = users[uid], !.cache = ids, !.done = done,
                                   !.missedIds = IF send THEN Range(ids) \ done ELSE {}]]
    /\ checkins' = checkins + 1
    /\ UNCHANGED <<app, clock, users, actions, daily_results, Pure>>

\* the UPDATE loop, the re-read and judge_day; when an UPDATE ran, the
\* transaction is open and the upsert and the users UPDATE commit with it
checkin_apply(r) ==
    /\ app = "legacy"
    /\ sess[r].pc = "apply"
    /\ LET uid == sess[r].user_id
           d == sess[r].today
           u == sess[r].u
           known == Range(sess[r].cache)
           tbl == SetCompletions(actions, sess[r].done \cap known,
                                 sess[r].missedIds \cap known)
           actions2 == RowsOf(tbl, uid, d)
           c == Counts(tbl, actions2)
           j == rules_judge_day(u.xp, u.streak, u.debt, u.difficulty,
                                c.completed, c.missed, c.impacts)
           open == (sess[r].done \cup sess[r].missedIds) \cap known # {}
       IN  /\ actions' = tbl
           /\ IF open
              THEN /\ daily_results' =
                        WriteResult(daily_results, SelectResult(uid, d), uid, d, j)
                   /\ users' = update_user_stats(users, uid, j)
                   /\ sess' = [sess EXCEPT ![r] = FreshSession(1)]
              ELSE /\ sess' = [sess EXCEPT ![r].pc = "write", ![r].counts = c,
                                  ![r].j = j, ![r].existing = SelectResult(uid, d)]
                   /\ UNCHANGED <<daily_results, users>>
    /\ UNCHANGED <<app, clock, checkins, Pure>>

\* no UPDATE ran before: the upsert's write opens the transaction
checkin_write(r) ==
    /\ app = "legacy"
    /\ sess[r].pc = "write"
    /\ daily_results' = WriteResult(daily_results, sess[r].existing,
                                    sess[r].user_id, sess[r].today, sess[r].j)
    /\ users' = update_user_stats(users, sess[r].user_id, sess[r].j)
    /\ sess' = [sess EXCEPT ![r] = FreshSession(1)]
    /\ UNCHANGED <<app, clock, actions, checkins, Pure>>

\* The handlers: sessions S, users U, goal inputs G, generation outcomes E, at
\* most limit check-ins, each leaving a number in M of its last boxes unticked.
Handlers(S, U, G, E, limit, M) ==
    \/ \E s \in S, uid \in U, goal \in G : StCommitGoal(s, uid, goal)
    \/ \E s \in S : StGenerate(s)
    \/ \E s \in S, env \in E : StGenerated(s, env)
    \/ \E s \in S, m \in M :
          checkins < limit /\ StSubmit(s, Len(sess[s].cache) - m)
    \/ \E s \in S : StUpsertSelect(s)
    \/ \E s \in S : StUpsertWrite(s)
    \/ \E s \in S : StUpdateStats(s)
    \/ \E uid \in U, goal \in G : create_user(uid, goal)
    \/ \E r \in S, uid \in U : generate_today(r, uid)
    \/ \E r \in S, env \in E : generate_today_insert(r, env)
    \/ \E r \in S, uid \in U, m \in M, send \in BOOLEAN :
          /\ checkins < limit
          /\ checkin(r, uid, IF send THEN Len(list_actions(uid, clock)) - m ELSE 0, send)
    \/ \E r \in S : checkin_apply(r)
    \/ \E r \in S : checkin_write(r)

\* the handlers over the days
Calls(S, U, G, E, limit, M) ==
    \/ Tick
    \/ \E s \in S : StNewSession(s)
    \/ Handlers(S, U, G, E, limit, M)

\* Racing sessions within one day.
Next == Handlers(Sessions, Users, {GoalSell, GoalBlank}, {NoKey, RespHeavy},
                 MaxCheckins, {0, 2, 4})

Spec == Init /\ [][Next]_vars

\* One session, so one handler at a time, over every goal input and generation
\* outcome and every number of unticked boxes.
NextSolo == Calls({"s1"}, Users, GoalInputs, MainEnvs, MaxCheckins, 0..MaxActions)

SpecSolo == Init /\ [][NextSolo]_vars

\* One session and one goal, over long runs of check-ins.
NextLong == Calls({"s1"}, Users, {GoalSell}, {NoKey}, MaxLongCheckins, {0, 1, 2})

SpecLong == Init /\ [][NextLong]_vars

(***************************************************************************)
(* judge_day on its own: Init draws the arguments, the two actions apply   *)
(* engine.judge_day and rules.judge_day.                                   *)
(***************************************************************************)
MaxCount == 5
MaxStreakArg == 5

XpArgs == {0, 10, 249, 500, 2490, 5000}
DebtArgs == {0, 7}
\* impacts_sum 0, 0.75, 1.25, 5.5, 15.0 and -2.0
ImpactArgs == {0, 15, 25, 110, 300, 0 - 40}

JudgeArgs ==
    [current_xp : XpArgs, current_streak : 0..MaxStreakArg, current_debt : DebtArgs,
     current_difficulty : 1..MaxDifficulty, completed : 0..MaxCount,
     missed : 0..MaxCount, impacts : ImpactArgs]

InitJudge ==
    /\ jd \in [called : {FALSE}, by : {"none"}, args : JudgeArgs, out : {NoJudgement}]
    /\ ga = PureIdle
    /\ app = "none"
    /\ clock = 1
    /\ users = << >>
    /\ actions = << >>
    /\ daily_results = << >>
    /\ sess = [s \in Sessions |-> FreshSession(1)]
    /\ checkins = 0

Tables == <<app, clock, users, actions, daily_results, sess, checkins>>

JudgeEngine ==
    /\ ~jd.called
    /\ LET a == jd.args IN
       jd' = [jd EXCEPT !.called = TRUE, !.by = "engine",
                 !.out = judge_day(a.current_xp, a.current_streak, a.current_debt,
                                   a.current_difficulty, a.completed, a.missed,
                                   a.impacts)]
    /\ UNCHANGED <<Tables, ga>>

JudgeRules ==
    /\ ~jd.called
    /\ LET a == jd.args IN
       jd' = [jd EXCEPT !.called = TRUE, !.by = "rules",
                 !.out = rules_judge_day(a.current_xp, a.current_streak,
                                         a.current_debt, a.current_difficulty,
                                         a.completed, a.missed, a.impacts)]
    /\ UNCHANGED <<Tables, ga>>

NextJudge == JudgeEngine \/ JudgeRules

SpecJudge == InitJudge /\ [][NextJudge]_vars

(***************************************************************************)
(* generate_actions on its own: Init draws the goal, the difficulty and    *)
(* what the outside world answers; the action applies generate_actions.    *)
(***************************************************************************)
OkItem == Item(Text("Email five customers", 20), 30, 2)
PaddedItem == Item([body |-> "Call a customer", pad |-> 2, len |-> 17], 15, 1)
LongItem == Item(Text("Publish the long plan", 400), 0 - 40, 7)
NotADict == [OkItem EXCEPT !.dict = FALSE]
BadWeight == [OkItem EXCEPT !.w_in = "bad"]
BadDifficulty == [OkItem EXCEPT !.d_in = "bad"]
EmptyDict == [OkItem EXCEPT !.text_in = "none", !.w_in = "none", !.d_in = "none"]

GenEnvs ==
    { NoKey,
      [NoKey EXCEPT !.api_key = TRUE, !.net = "error"],
      [NoKey EXCEPT !.api_key = TRUE, !.status = 500],
      [NoKey EXCEPT !.api_key = TRUE, !.status = 404],
      [NoKey EXCEPT !.api_key = TRUE, !.json_ok = FALSE],
      [NoKey EXCEPT !.api_key = TRUE, !.txt = "noarray"],
      [NoKey EXCEPT !.api_key = TRUE, !.txt = "badarray"],
      Response(<< >>),
      Response(<<OkItem, PaddedItem>>),
      Response(<<OkItem, PaddedItem, LongItem>>),
      Response(<<EmptyDict, EmptyDict, EmptyDict>>),
      Response(<<OkItem, NotADict, LongItem>>),
      Response(<<OkItem, PaddedItem, BadWeight>>),
      Response(<<BadDifficulty, PaddedItem, OkItem>>),
      Response(<<OkItem, PaddedItem, LongItem, OkItem, EmptyDict>>),
      Response(<<OkItem, PaddedItem, LongItem, OkItem, OkItem, NotADict>>),
      RespHeavy, RespOdd }

GoalShip == <<"S", "h", "i", "p", " ", "M", "V", "P">>
GoalHappy == <<"B", "e", " ", "h", "a", "p", "p", "y">>
GoalEmpty == << >>
GenGoals == {GoalSell, GoalFit, GoalBlank, GoalShip, GoalHappy, GoalEmpty}

InitGen ==
    /\ ga \in [called : {FALSE}, env : GenEnvs, goal_text : GenGoals,
               difficulty : 1..MaxDifficulty, out : {Returned(<< >>)}]
    /\ jd = PureIdle
    /\ app = "none"
    /\ clock = 1
    /\ users = << >>
    /\ actions = << >>
    /\ daily_results = << >>
    /\ sess = [s \in Sessions |-> FreshSession(1)]
    /\ checkins = 0

Generate ==
    /\ ~ga.called
    /\ ga' = [ga EXCEPT !.called = TRUE,
                 !.out = generate_actions(ga.env, ga.goal_text, ga.difficulty)]
    /\ UNCHANGED <<Tables, jd>>

NextGen == Generate

SpecGen == InitGen /\ [][NextGen]_vars

(***************************************************************************)
(* The claims.                                                             *)
(***************************************************************************)
\* a session whose handler holds a judgement it has not written yet
Judged(s) == sess[s].pc \in {"upsert", "upsert_write", "stats", "write"}

AllIdle == \A s \in Sessions : sess[s].pc = "idle"

\* C1: from a new user, through any check-ins, the stored experience points
\* are never negative: the delta is floored at 0.
C1_XpNeverNegative == \A u \in DOMAIN users : users[u].xp >= 0

\* a judgement with a negative delta was stored and left the user at 0
C1_Witness ==
    /\ AllIdle
    /\ \E i \in 1..Len(daily_results) :
          /\ daily_results[i].xp_delta < 0
          /\ daily_results[i].user_id \in DOMAIN users
          /\ users[daily_results[i].user_id].xp = 0
          /\ users[daily_results[i].user_id].debt > 0

\* C2: the stored level is always clamp(1 + floor(xp / 250), 1, 10) of the
\* stored xp.
C2_LevelFollowsXp ==
    \A u \in DOMAIN users :
        LET raw == 1 + (users[u].xp \div 250) IN
        users[u].level = IF raw < 1 THEN 1 ELSE IF raw > 10 THEN 10 ELSE raw

\* a user past 2500 points after a check-in with misses: the cap of 10 decides
C2_Witness ==
    \E u \in DOMAIN users :
        /\ users[u].xp >= 2500
        /\ users[u].level = 10
        /\ users[u].debt > 0

\* C3: the stored difficulty stays in 1..5 and the stored level in 1..10; a
\* judgement made at difficulty 5 whose difficulty branch fires yields 5.
C3_Ranges ==
    /\ \A u \in DOMAIN users :
          /\ users[u].difficulty \in 1..5
          /\ users[u].level \in 1..10
    /\ \A s \in Sessions :
          Judged(s) /\ sess[s].u.difficulty = 5 => sess[s].j.new_difficulty = 5

\* every one of the check-ins missed two actions, so every one raised the
\* difficulty or met the cap; the user stands at 5 after the last of them
C3_Witness ==
    /\ AllIdle
    /\ checkins = MaxLongCheckins
    /\ \E u \in DOMAIN users :
          /\ users[u].debt = 2 * checkins
          /\ users[u].difficulty = 5

\* C5: judge_day returns a streak of 0 when missed > 0 or completed = 0, and
\* of current_streak + 1 otherwise.
C5_Streak ==
    jd.called =>
        jd.out.new_streak =
            IF jd.args.missed > 0 \/ jd.args.completed = 0 THEN 0
            ELSE jd.args.current_streak + 1

\* a clean day on a running streak, judged
C5_Witness ==
    /\ jd.called
    /\ jd.args.missed = 0
    /\ jd.args.completed > 0
    /\ jd.args.current_streak > 0
    /\ jd.out.new_streak = jd.args.current_streak + 1

\* the step in which the check-in of s writes the users row
WritesStats(s) ==
    /\ sess[s].pc \in {"stats", "write", "apply"}
    /\ sess'[s].pc = "idle"

\* the counts that check-in judged
CountsOf(s) ==
    IF sess[s].pc = "apply"
    THEN Counts(actions', RowsOf(actions', sess[s].user_id, sess[s].today))
    ELSE sess[s].counts

\* C4: no step reduces a user's debt, and the step that stores a check-in
\* raises the stored debt by exactly the missed count of that check-in.
C4_DebtStep ==
    /\ \A u \in DOMAIN users :
          /\ u \in DOMAIN users'
          /\ users'[u].debt >= users[u].debt
    /\ \A s \in Sessions :
          WritesStats(s) =>
              users'[sess[s].user_id].debt =
                  users[sess[s].user_id].debt + CountsOf(s).missed

C4_DebtNeverReduced == [][C4_DebtStep]_vars

\* the days of user u that have a daily result
JudgedDays(u) ==
    {daily_results[i].date : i \in {n \in 1..Len(daily_results) :
                                       daily_results[n].user_id = u}}

\* a day of u that stands with zero misses and at least one completion
GoodDay(u, d) ==
    /\ d \in JudgedDays(u)
    /\ LET c == Counts(actions, list_actions(u, d)) IN
       c.missed = 0 /\ c.completed > 0

\* the consecutive good days of u that end at the most recently judged day
RunOfGoodDays(u) ==
    LET last == CHOOSE d \in JudgedDays(u) : \A e \in JudgedDays(u) : e <= d IN
    Cardinality({d \in 1..last : \A e \in d..last : GoodDay(u, e)})

\* C6: between check-ins, the stored streak of a user is the number of
\* consecutive calendar days, ending at the most recently judged day, that
\* each had zero misses and at least one completion.
C6_StreakCountsDays ==
    AllIdle =>
        \A u \in DOMAIN users :
            users[u].streak = IF JudgedDays(u) = {} THEN 0 ELSE RunOfGoodDays(u)

\* C7: there is at most one daily result per (user, day).
C7_OneResultPerDay ==
    \A i, k \in 1..Len(daily_results) :
        /\ daily_results[i].user_id = daily_results[k].user_id
        /\ daily_results[i].date = daily_results[k].date
        => i = k

\* C8: a generation request for a (user, day) that has stored actions inserts
\* nothing and leaves them unchanged, and no (user, day) ever holds more than
\* 5 actions.
C8_GenerationStep ==
    /\ \A s \in Sessions :
          /\ sess[s].pc = "generating"
          /\ sess'[s].pc = "idle"
          /\ list_actions(sess[s].user_id, sess[s].today) # << >>
          => actions' = actions
    /\ \A u \in Users, d \in Days : Len(RowsOf(actions', u, d)) <= 5

C8_NoReRoll == [][C8_GenerationStep]_vars

\* the progression state a judgement of counts c makes of the row
Progress(row, c) ==
    LET j == judge_day(row.xp, row.streak, row.debt, row.difficulty,
                       c.completed, c.missed, c.impacts)
    IN  [xp |-> j.new_xp, level |-> j.new_level, streak |-> j.new_streak,
         debt |-> j.new_debt, difficulty |-> j.new_difficulty]

ProgressOf(row) ==
    [xp |-> row.xp, level |-> row.level, streak |-> row.streak, debt |-> row.debt,
     difficulty |-> row.difficulty]

\* C9: read, judge and write are one serialized unit per user: every check-in
\* stores the judgement of the progression state that is stored when it
\* writes, so that check-ins racing on one user end in the state that applying
\* their judgements one after the other gives.
C9_WriteStep ==
    \A s \in Sessions :
        WritesStats(s) =>
            ProgressOf(users'[sess[s].user_id]) =
                Progress(users[sess[s].user_id], CountsOf(s))

C9_NoLostUpdate == [][C9_WriteStep]_vars

\* the outcomes of the external call on which generate_actions falls back
Fails(env) ==
    \/ ~env.api_key
    \/ env.net # "ok"
    \/ env.status >= 400
    \/ ~env.json_ok
    \/ env.txt # "array"
    \/ \E i \in 1..Len(env.arr) :
          ~env.arr[i].dict \/ env.arr[i].w_in = "bad" \/ env.arr[i].d_in = "bad"
    \/ Len(env.arr) < 3

\* C10: generate_actions never raises; on every failure it returns what the
\* heuristic generator returns for the same goal text and difficulty; what it
\* returns has 3 to 5 actions, each with non_negotiable true.
C10_AlwaysActions ==
    ga.called =>
        /\ ~ga.out.raised
        /\ Len(ga.out.value) \in 3..5
        /\ \A i \in 1..Len(ga.out.value) : ga.out.value[i].non_negotiable
        /\ Fails(ga.env) =>
              ga.out.value = _offline_actions(ga.goal_text, ga.difficulty)

\* the response held an item that is no object: the heuristic actions came back
C10_Witness ==
    /\ ga.called
    /\ ga.env.api_key
    /\ ga.env.net = "ok"
    /\ Len(ga.env.arr) >= 3
    /\ \E i \in 1..Len(ga.env.arr) : ~ga.env.arr[i].dict
    /\ ~ga.out.raised
    /\ ga.out.value = _offline_actions(ga.goal_text, ga.difficulty)

\* the texts of a list of actions, in order
TextsOf(acts) == [i \in 1..Len(acts) |-> acts[i].text.body]

RevenueTexts ==
    << "Contact 10 prospects (DM/email) with ONE offer. Log replies.",
       "Improve the offer (headline + price + guarantee). Publish it.",
       "Book 1 short sales call (15 min). No research-avoidance.",
       "Ask for money: send 1 invoice/checkout link or request a deposit." >>

BuildTexts ==
    << "Set a deadline: ship 1 concrete feature today. No side quests.",
       "Cut 1 feature you 'want' but don't need. Commit the change.",
       "Post a public update (X/LinkedIn) showing what you shipped.",
       "Get 3 people to test and give feedback. Collect responses." >>

GenericTexts ==
    << "Write today's 3 deliverables in 1 sentence each. No fluff.",
       "Do the most uncomfortable task first. 45-minute timer. No distractions.",
       "Remove 1 blocker by contacting a human (not Googling).",
       "Ship something visible: post/commit/demo. Proof > intention." >>

\* "Sell the app" holds a revenue keyword (sell) and a build keyword (app);
\* "Ship MVP" and "Be happy" (h-app-y) hold build keywords only; " Get fit",
\* the blank goal and the empty goal hold none
ExpectedTexts(goal) ==
    IF goal = GoalSell THEN RevenueTexts
    ELSE IF goal \in {GoalShip, GoalHappy} THEN BuildTexts
    ELSE GenericTexts

\* C11: the heuristic generator classifies the lowercased goal in the order
\* revenue, build, generic: a goal with keywords of both sets gets the revenue
\* template, a goal with no keyword (empty and blank ones too) the generic
\* one, and every category yields its fixed ordered template of 4 actions.
C11_Templates ==
    ga.called /\ ~ga.env.api_key =>
        /\ Len(ga.out.value) = 4
        /\ TextsOf(ga.out.value) = ExpectedTexts(ga.goal_text)

\* the goal with keywords of both sets was classified: revenue
C11_Witness ==
    /\ ga.called
    /\ ~ga.env.api_key
    /\ ga.goal_text = GoalSell
    /\ TextsOf(ga.out.value) = RevenueTexts

\* C12: for every goal and every input difficulty in 1..5, each action the
\* heuristic generator returns has a difficulty in 1..3, and so has every
\* stored action.
C12_DifficultyCapped ==
    /\ ga.called /\ ~ga.env.api_key =>
          \A i \in 1..Len(ga.out.value) : ga.out.value[i].difficulty \in 1..3
    /\ \A i \in 1..Len(actions) : actions[i].difficulty \in 1..3

\* C13: once a user record exists, only the step that stores the judgement
\* of a check-in changes it: committing a goal again for its identifier
\* leaves the whole record (goal text, xp, level, streak, debt, difficulty)
\* as it is, and the record stays.
C13_RecordStep ==
    \A u \in DOMAIN users :
        /\ u \in DOMAIN users'
        /\ users'[u] # users[u] =>
              \E s \in Sessions : WritesStats(s) /\ sess[s].user_id = u

C13_OnlyJudgementChangesUser == [][C13_RecordStep]_vars

\* the first worked example: xp 0, streak 0, difficulty 1, 4 completed,
\* 0 missed, impacts 5.5
IsExampleClean(a) ==
    /\ a.current_xp = 0 /\ a.current_streak = 0 /\ a.current_difficulty = 1
    /\ a.completed = 4 /\ a.missed = 0 /\ a.impacts = 110

\* the second: xp 500, streak 4, difficulty 2, 0 completed, 3 missed, impacts 0
IsExampleMissed(a) ==
    /\ a.current_xp = 500 /\ a.current_streak = 4 /\ a.current_difficulty = 2
    /\ a.completed = 0 /\ a.missed = 3 /\ a.impacts = 0

\* C14: for impact sums in tenths (an even number of twentieths), judge_day
\* returns penalty = 15 * missed, xp_delta = round(20 * completed +
\* 10 * impacts_sum + 5 * current_difficulty) + (5 if new_streak >= 3 else 0)
\* - penalty and new_xp = max(0, current_xp + xp_delta); the two worked
\* examples give 140 / 140 and 45 / -35 / 465.
C14_XpFormula ==
    jd.called /\ jd.args.impacts % 2 = 0 =>
        LET a == jd.args
            o == jd.out
            base == (40 * a.completed + a.impacts + 10 * a.current_difficulty) \div 2
            bonus == IF o.new_streak >= 3 THEN 5 ELSE 0
            sum == a.current_xp + o.xp_delta
        IN  /\ o.penalty = 15 * a.missed
            /\ o.xp_delta = base + bonus - o.penalty
            /\ o.new_xp = IF sum < 0 THEN 0 ELSE sum
            /\ IsExampleClean(a) => o.xp_delta = 140 /\ o.new_xp = 140
            /\ IsExampleMissed(a) =>
                  o.penalty = 45 /\ o.xp_delta = 0 - 35 /\ o.new_xp = 465

\* the second worked example, judged
C14_Witness ==
    /\ jd.called
    /\ IsExampleMissed(jd.args)
    /\ jd.out.xp_delta = 0 - 35
    /\ jd.out.new_xp = 465

\* C15: the difficulty adjustment is a first-match chain: new_difficulty is
\* clamp(current_difficulty + 1, 1, 5) when missed >= 2, or else
\* new_streak >= 5, or else (missed == 0 and completed >= 4), and
\* clamp(current_difficulty, 1, 5) otherwise; one judgement raises the
\* difficulty by at most 1 and never lowers it.
C15_DifficultyChain ==
    jd.called =>
        LET a == jd.args
            o == jd.out
            fires == \/ a.missed >= 2
                     \/ o.new_streak >= 5
                     \/ a.missed = 0 /\ a.completed >= 4
            diff == IF fires THEN a.current_difficulty + 1 ELSE a.current_difficulty
        IN  /\ o.new_difficulty = IF diff > 5 THEN 5 ELSE IF diff < 1 THEN 1 ELSE diff
            /\ o.new_difficulty >= a.current_difficulty
            /\ o.new_difficulty <= a.current_difficulty + 1

\* the streak condition and the completed condition both hold: one step up
C15_Witness ==
    /\ jd.called
    /\ jd.args.missed = 0
    /\ jd.args.completed >= 4
    /\ jd.out.new_streak >= 5
    /\ jd.args.current_difficulty = 2
    /\ jd.out.new_difficulty = 3

\* C16, as the code has it: judge_day returns the catch-all verdict exactly
\* when missed == 1 and completed >= 1 (1..4 for a day of at most 5 actions),
\* or completed == 0 and missed == 0; a day with no completed and no missed
\* action gets the catch-all verdict and not the "executed nothing" verdict.
C16_CatchAll ==
    jd.called =>
        /\ jd.out.verdict = VerdictBailed <=>
              \/ jd.args.missed = 1 /\ jd.args.completed >= 1
              \/ jd.args.completed = 0 /\ jd.args.missed = 0
        /\ jd.args.completed = 0 /\ jd.args.missed = 0 =>
              jd.out.verdict # VerdictNothing

\* four completed and one missed: the catch-all verdict
C16_Witness ==
    /\ jd.called
    /\ jd.args.completed = 4
    /\ jd.args.missed = 1
    /\ jd.out.verdict = VerdictBailed

\* C16, as stated: over the counts a day can produce (completed + missed
\* <= 5) the catch-all verdict is returned exactly when missed == 1 and
\* completed is in {0,1,2,3}, or completed == 0 and missed == 0.
C16_CatchAllAsStated ==
    jd.called /\ jd.args.completed + jd.args.missed <= 5 =>
        (jd.out.verdict = VerdictBailed <=>
            \/ jd.args.missed = 1 /\ jd.args.completed \in {0, 1, 2, 3}
            \/ jd.args.completed = 0 /\ jd.args.missed = 0)

\* the difficulties of a list of actions, in order
DifficultiesOf(acts) == [i \in 1..Len(acts) |-> acts[i].difficulty]

\* min(3, difficulty + 1)
Escalated(d) == IF d + 1 > 3 THEN 3 ELSE d + 1

\* C17, as the code has it: for every input difficulty d, the revenue
\* template has the difficulties (min(3, d+1), d, min(3, d+1), 3), the build
\* template (d, d, d, min(3, d+1)) and the generic template
\* (d, min(3, d+1), min(3, d+1), d).
C17_TemplateDifficulties ==
    ga.called /\ ~ga.env.api_key =>
        LET d == ga.difficulty
            up == Escalated(d)
            texts == TextsOf(ga.out.value)
        IN  /\ texts \in {RevenueTexts, BuildTexts, GenericTexts}
            /\ DifficultiesOf(ga.out.value) =
                  IF texts = RevenueTexts THEN <<up, d, up, 3>>
                  ELSE IF texts = BuildTexts THEN <<d, d, d, up>>
                  ELSE <<d, up, up, d>>

\* the build template at difficulty 1: one action escalates, three keep 1
C17_Witness ==
    /\ ga.called
    /\ ~ga.env.api_key
    /\ ga.difficulty = 1
    /\ TextsOf(ga.out.value) = BuildTexts
    /\ DifficultiesOf(ga.out.value) = <<1, 1, 1, 2>>

\* C17, as stated: in each category exactly two of the four template actions
\* get min(3, difficulty + 1) and the other two keep the input difficulty.
C17_TwoOfFourEscalate ==
    ga.called /\ ~ga.env.api_key =>
        LET ds == DifficultiesOf(ga.out.value) IN
        /\ Len(ds) = 4
        /\ \E up \in SUBSET (1..4) :
              /\ Cardinality(up) = 2
              /\ \A i \in up : ds[i] = Escalated(ga.difficulty)
              /\ \A i \in (1..4) \ up : ds[i] = ga.difficulty

====
